---- MODULE Spec2Model ----
(***************************************************************************)
(* Model of badapple-tensorboard.                                          *)
(*                                                                         *)
(*   oneframe_plt.py   frame_to_scalar_curves    (pure column scan)        *)
(*                     log_frame_to_tensorboard  (one frame -> writers)    *)
(*                     log_badapple_sequence     (all frames, try/finally) *)
(*   screenshotter.py  FrameCapture.capture_single_frame / capture_frames  *)
(*                                                                         *)
(* Row positions y + 0.5 are kept in units of half a row: the position     *)
(* y + 0.5 is the integer 2*y + 1, so r - 0.5 is 2*r - 1.                  *)
(***************************************************************************)
EXTENDS Integers, Sequences, FiniteSets, TLC

VARIABLES
    \* ---- frame_to_scalar_curves (one call)
    image_file,        \* the file behind image_path
    pc_ex,             \* "off" | "call" | "returned" | "raised"
    x_sample,          \* returned np.arange(width)
    all_curves,        \* returned dict, insertion ordered: <<[name, data], ...>>
    error,             \* the exception raised, "" when none
    \* ---- log_badapple_sequence
    pc_log,            \* "off" | "start" | "loop" | "finally" | "done"
    num_frames,        \* len(frame_files)
    frame_num,         \* frames handed to log_frame_to_tensorboard so far
    writers,           \* dict curve_name -> SummaryWriter: <<[name, obj], ...>>
    summary_writers,   \* every SummaryWriter constructed: <<[name, writes, closes], ...>>
    logged,            \* "Logged frame_..." lines written
    errors_printed,    \* "Error processing frame ..." lines printed
    interrupted,       \* a BaseException left the try block of the sequence
    \* ---- FrameCapture.capture_frames
    pc_main,           \* "off" | "submit" | "as_completed" | "drained"
    start_frame, max_frame, max_workers,
    submitted,         \* frame numbers handed to executor.submit, in order
    work_queue,        \* submitted tasks no worker has taken yet
    workers,           \* per pool thread: [pc, frame, tmp]
    lock,              \* 0 when free, else the thread holding self.lock
    screenshots_taken, \* self.screenshots_taken
    returned,          \* finished futures: <<[frame, success], ...>>
    error_prints,      \* "Error capturing frame ..." lines printed
    completed          \* futures consumed by the as_completed loop

ex_vars  == <<image_file, pc_ex, x_sample, all_curves, error>>
log_vars == <<pc_log, num_frames, frame_num, writers, summary_writers, logged,
              errors_printed, interrupted>>
cap_vars == <<pc_main, start_frame, max_frame, max_workers, submitted, work_queue,
              workers, lock, screenshots_taken, returned, error_prints, completed>>
vars == <<ex_vars, log_vars, cap_vars>>

(***************************************************************************)
(* Bounds                                                                  *)
(***************************************************************************)
MaxH == 3
MaxW == 3

(***************************************************************************)
(* Input images                                                            *)
(***************************************************************************)
\* Intensities on both sides of the cutoff.
PixelValues == {127, 128}

\* cv2.threshold(img, 127, 255, cv2.THRESH_BINARY)
thresh == 127
maxval == 255

\* np.nan, the fill value of a fresh curve.  Real positions are >= 1.
NaN == -1

\* What cv2.imread returns for a file it cannot decode.
None == <<>>

\* A file that decodes to the h x w grid pix, indexed pix[y+1][x+1].
Decodable(h, w, pix) == [kind |-> "ok", h |-> h, w |-> w, pix |-> pix]

\* The grids of h rows and w columns.
Grids(h, w) == [1..h -> [1..w -> PixelValues]]

\* A file without a non-empty pixel grid: absent, not an image, or an image
\* header declaring a zero dimension.
UndecodableKinds == {"missing", "corrupt", "zero_dim"}
Undecodable(kind) == [kind |-> kind, h |-> 0, w |-> 0, pix |-> <<>>]

\* cv2.imread(image_path, cv2.IMREAD_GRAYSCALE): the grid, or None.
Imread(file) == IF file.kind = "ok" THEN file.pix ELSE None

\* cv2.threshold(..., THRESH_BINARY): maxval where src > thresh, else 0.
Threshold(img) ==
    [y \in DOMAIN img |->
        [x \in DOMAIN img[y] |-> IF img[y][x] > thresh THEN maxval ELSE 0]]

(***************************************************************************)
(* frame_to_scalar_curves                                                  *)
(***************************************************************************)
\* y + 0.5, in half rows (mutant: the half is forgotten).
PosNoHalf(y) == 2 * y
Pos(y) == 2 * y + 1

\* f"transition_{i}" (mutant: ranks numbered from 1).
CurveNameFromOne(i) == <<"transition", i + 1>>
CurveName(i) == <<"transition", i>>

\* np.full(n, v) (mutants: np.zeros(n); one slot too many).
NpZeros(n, v) == [k \in 1..n |-> 0]
NpFullOneMore(n, v) == [k \in 1..(n + 1) |-> v]
NpFull(n, v) == [k \in 1..n |-> v]

\* np.arange(width)
Arange(width) == [k \in 1..width |-> k - 1]

\* curve_name in all_curves
HasKey(dict, key) == \E k \in 1..Len(dict) : dict[k].name = key

\* position of key in the dict's insertion order
KeyIndex(dict, key) == CHOOSE k \in 1..Len(dict) : dict[k].name = key

\* The inner loop "for y in range(height - 1)" of column x, from row y on.
\* (mutant: only a black-to-white step counts as a transition)
RECURSIVE ScanColumnRisingOnly(_, _, _, _, _)
ScanColumnRisingOnly(binary, x, y, height, transitions) ==
    IF y >= height - 1 THEN transitions
    ELSE LET current_pixel == binary[y + 1][x + 1]
             next_pixel    == binary[y + 2][x + 1]
         IN ScanColumnRisingOnly(binary, x, y + 1, height,
                IF current_pixel < next_pixel
                THEN Append(transitions, Pos(y))
                ELSE transitions)

RECURSIVE ScanColumn(_, _, _, _, _)
ScanColumn(binary, x, y, height, transitions) ==
    IF y >= height - 1 THEN transitions
    ELSE LET current_pixel == binary[y + 1][x + 1]
             next_pixel    == binary[y + 2][x + 1]
         IN ScanColumn(binary, x, y + 1, height,
                IF current_pixel # next_pixel
                THEN Append(transitions, Pos(y))
                ELSE transitions)

\* "for i, y_pos in enumerate(transitions)" of column x, from index i on.
RECURSIVE StoreTransitions(_, _, _, _, _)
StoreTransitions(curves, transitions, i, x, width) ==
    IF i >= Len(transitions) THEN curves
    ELSE LET curve_name == CurveName(i)
             present == IF HasKey(curves, curve_name) THEN curves
                        ELSE Append(curves, [name |-> curve_name,
                                             data |-> NpFull(width, NaN)])
             k == KeyIndex(present, curve_name)
         IN StoreTransitions(
                [present EXCEPT ![k].data[x + 1] = transitions[i + 1]],
                transitions, i + 1, x, width)

\* The outer loop "for x in range(width)", from column x on.
\* (mutant: "transitions = []" hoisted out of the loop, so the list carries over)
RECURSIVE ColumnLoopCarry(_, _, _, _, _, _)
ColumnLoopCarry(binary, x, height, width, curves, carried) ==
    IF x >= width THEN curves
    ELSE LET transitions == ScanColumn(binary, x, 0, height, carried)
         IN ColumnLoopCarry(binary, x + 1, height, width,
                StoreTransitions(curves, transitions, 0, x, width), transitions)

ColumnLoopShared(binary, x, height, width, curves) ==
    ColumnLoopCarry(binary, x, height, width, curves, <<>>)

RECURSIVE ColumnLoop(_, _, _, _, _)
ColumnLoop(binary, x, height, width, curves) ==
    IF x >= width THEN curves
    ELSE LET transitions == ScanColumn(binary, x, 0, height, <<>>)
         IN ColumnLoop(binary, x + 1, height, width,
                StoreTransitions(curves, transitions, 0, x, width))

\* The curves computed from a decoded image (lines 17-43).
CurvesOf(img) ==
    LET binary == Threshold(img)
        height == Len(binary)
        width  == Len(binary[1])
    IN ColumnLoop(binary, 0, height, width, <<>>)

\* One call of frame_to_scalar_curves(image_path).
\* (mutant: a missing image is answered with an empty result)
FrameToScalarCurvesLenient ==
    /\ pc_ex = "call"
    /\ LET img == Imread(image_file)
       IN IF img = None
          THEN /\ pc_ex' = "returned"
               /\ x_sample' = <<>>
               /\ all_curves' = <<>>
               /\ error' = ""
          ELSE /\ pc_ex' = "returned"
               /\ x_sample' = Arange(Len(img[1]))
               /\ all_curves' = CurvesOf(img)
               /\ error' = ""
    /\ UNCHANGED <<image_file, log_vars, cap_vars>>

FrameToScalarCurves ==
    /\ pc_ex = "call"
    /\ LET img == Imread(image_file)
       IN IF img = None
          THEN /\ pc_ex' = "raised"
               /\ error' = "FileNotFoundError"
               /\ UNCHANGED <<x_sample, all_curves>>
          ELSE /\ pc_ex' = "returned"
               /\ x_sample' = Arange(Len(img[1]))
               /\ all_curves' = CurvesOf(img)
               /\ error' = ""
    /\ UNCHANGED <<image_file, log_vars, cap_vars>>

(***************************************************************************)
(* Idle values of the scripts that are not running                         *)
(***************************************************************************)
ExOff ==
    /\ image_file = Undecodable("missing")
    /\ pc_ex = "off"
    /\ x_sample = <<>>
    /\ all_curves = <<>>
    /\ error = ""

LogOff ==
    /\ pc_log = "off"
    /\ num_frames = 0
    /\ frame_num = 0
    /\ writers = <<>>
    /\ summary_writers = <<>>
    /\ logged = 0
    /\ errors_printed = 0
    /\ interrupted = FALSE

CapOff ==
    /\ pc_main = "off"
    /\ start_frame = 0
    /\ max_frame = 0
    /\ max_workers = 0
    /\ submitted = <<>>
    /\ work_queue = <<>>
    /\ workers = <<>>
    /\ lock = 0
    /\ screenshots_taken = 0
    /\ returned = <<>>
    /\ error_prints = 0
    /\ completed = 0

(***************************************************************************)
(* The extractor called on one file                                        *)
(***************************************************************************)
InitExtract ==
    /\ \/ \E h \in 1..MaxH, w \in 1..MaxW : \E pix \in Grids(h, w) :
              image_file = Decodable(h, w, pix)
       \/ \E kind \in UndecodableKinds : image_file = Undecodable(kind)
    /\ pc_ex = "call"
    /\ x_sample = <<>>
    /\ all_curves = <<>>
    /\ error = ""
    /\ LogOff
    /\ CapOff

NextExtract == FrameToScalarCurves

SpecExtract == InitExtract /\ [][NextExtract]_vars

(***************************************************************************)
(* log_frame_to_tensorboard and log_badapple_sequence                      *)
(***************************************************************************)
MaxLogFrames == 3

\* A decoded frame file holding the grid pix.
FrameOf(pix) == Decodable(Len(pix), Len(pix[1]), pix)

\* The .jpg files a frames directory may hold: an undecodable one, a blank
\* frame, a stripe over both columns, a stripe next to a single edge, and a
\* single edge next to a blank column.
LogFrames ==
    { Undecodable("corrupt"),
      FrameOf(<< <<200, 200>>, <<200, 200>>, <<200, 200>> >>),
      FrameOf(<< <<200, 200>>, <<10, 10>>,   <<200, 200>> >>),
      FrameOf(<< <<200, 200>>, <<10, 200>>,  <<200, 10>> >>),
      FrameOf(<< <<200, 200>>, <<200, 200>>, <<200, 10>> >>) }

\* dict[key]
DictGet(dict, key) == dict[KeyIndex(dict, key)].obj

\* dict[key] = obj: a new key goes last, an old key keeps its place.
DictSet(dict, key, obj) ==
    IF HasKey(dict, key)
    THEN [dict EXCEPT ![KeyIndex(dict, key)].obj = obj]
    ELSE Append(dict, [name |-> key, obj |-> obj])

\* "if curve_name not in writers" (mutant: a writer is made for every frame).
NeedsWriterAlways(ws, curve_name) == TRUE
NeedsWriter(ws, curve_name) == ~HasKey(ws, curve_name)

\* The calls the first loop (lines 55-65) makes on writers: per curve the
\* SummaryWriter construction, if the name has no writer yet, then one
\* add_scalar per entry that is not NaN.
CurveOps(ws, curve) ==
    LET valid == { x \in 1..Len(curve.data) : curve.data[x] # NaN }
        create == IF NeedsWriter(ws, curve.name)
                  THEN << [op |-> "SummaryWriter", name |-> curve.name] >>
                  ELSE <<>>
        adds == [i \in 1..Cardinality(valid) |-> [op |-> "add_scalar", name |-> curve.name]]
    IN create \o adds

FirstLoopOps(ws, curves) ==
    LET upto[k \in 0..Len(curves)] ==
            IF k = 0 THEN <<>> ELSE upto[k - 1] \o CurveOps(ws, curves[k])
    IN upto[Len(curves)]

\* The calls the second loop (lines 67-72) makes: one add_scalar of 0 per x
\* on the first curve's writer, then break.
SecondLoopOps(curves, x_data) ==
    IF Len(curves) = 0 THEN <<>>
    ELSE [i \in 1..Len(x_data) |-> [op |-> "add_scalar", name |-> curves[1].name]]

\* Every call on writers one frame makes, in program order.
FrameOps(ws, curves, x_data) ==
    FirstLoopOps(ws, curves) \o SecondLoopOps(curves, x_data)

\* The effect of one call on st = [writers, objs].
ApplyOp(st, call) ==
    IF call.op = "SummaryWriter"
    THEN [writers |-> DictSet(st.writers, call.name, Len(st.objs) + 1),
          objs    |-> Append(st.objs, [name |-> call.name, writes |-> 0, closes |-> 0])]
    ELSE LET w == DictGet(st.writers, call.name)
         IN [st EXCEPT !.objs[w].writes = @ + 1]

\* The effect of the first count calls of calls.
RunOps(st0, calls, count) ==
    LET after[i \in 0..count] ==
            IF i = 0 THEN st0 ELSE ApplyOp(after[i - 1], calls[i])
    IN after[count]

\* The calls a frame whose image decoded to img makes, given the dict ws.
FrameCalls(ws, img) == FrameOps(ws, CurvesOf(img), Arange(Len(img[1])))
FrameOpCount(ws, img) == Len(FrameCalls(ws, img))

\* writers and the SummaryWriter objects after the frame's first n calls.
FrameState(ws, objs, img, n) ==
    RunOps([writers |-> ws, objs |-> objs], FrameCalls(ws, img), n)

\* "for writer in writers.values(): writer.close()"
CloseAll(objs, ws) ==
    LET after[k \in 0..Len(ws)] ==
            IF k = 0 THEN objs
            ELSE [after[k - 1] EXCEPT ![ws[k].obj].closes = @ + 1]
    IN after[Len(ws)]

\* How the (n+1)-th call of a frame can end the frame early: an Exception,
\* caught at line 76, or a KeyboardInterrupt, which "except Exception" lets by.
Outcomes == {"ok", "Exception", "KeyboardInterrupt"}

\* Lines 84-93: glob the frames; with none, return before the try block.
LogStart ==
    /\ pc_log = "start"
    /\ pc_log' = IF num_frames = 0 THEN "done" ELSE "loop"
    /\ UNCHANGED <<num_frames, frame_num, writers, summary_writers, logged,
                   errors_printed, interrupted, ex_vars, cap_vars>>

\* One round of the loop at line 97: log_frame_to_tensorboard on the next
\* frame, whose file turns out to be `file`; the first n calls on writers
\* succeed and `outcome` says how the frame ends.
\* (mutant: the except clause of line 76 is missing, so an Exception leaves
\*  the loop like an interrupt does)
LogFrameUncaught(file, n, outcome) ==
    /\ pc_log = "loop"
    /\ frame_num < num_frames
    /\ frame_num' = frame_num + 1
    /\ LET img == Imread(file)
       IN IF img = None
          THEN /\ n = 0
               /\ outcome = "Exception"
               /\ pc_log' = "finally"
               /\ UNCHANGED <<writers, summary_writers, logged, errors_printed,
                              interrupted>>
          ELSE LET st == FrameState(writers, summary_writers, img, n)
               IN /\ n <= FrameOpCount(writers, img)
                  /\ (outcome = "ok") <=> (n = FrameOpCount(writers, img))
                  /\ writers' = st.writers
                  /\ summary_writers' = st.objs
                  /\ logged' = IF outcome = "ok" THEN logged + 1 ELSE logged
                  /\ UNCHANGED errors_printed
                  /\ interrupted' = (outcome = "KeyboardInterrupt")
                  /\ pc_log' = IF outcome = "ok" THEN "loop" ELSE "finally"
    /\ UNCHANGED <<num_frames, ex_vars, cap_vars>>

LogFrame(file, n, outcome) ==
    /\ pc_log = "loop"
    /\ frame_num < num_frames
    /\ frame_num' = frame_num + 1
    /\ LET img == Imread(file)
       IN IF img = None
          THEN \* frame_to_scalar_curves raises FileNotFoundError
               /\ n = 0
               /\ outcome = "Exception"
               /\ errors_printed' = errors_printed + 1
               /\ UNCHANGED <<pc_log, writers, summary_writers, logged, interrupted>>
          ELSE LET st == FrameState(writers, summary_writers, img, n)
               IN /\ n <= FrameOpCount(writers, img)
                  /\ (outcome = "ok") <=> (n = FrameOpCount(writers, img))
                  /\ writers' = st.writers
                  /\ summary_writers' = st.objs
                  /\ logged' = IF outcome = "ok" THEN logged + 1 ELSE logged
                  /\ errors_printed' = IF outcome = "Exception"
                                       THEN errors_printed + 1 ELSE errors_printed
                  /\ interrupted' = (outcome = "KeyboardInterrupt")
                  /\ pc_log' = IF outcome = "KeyboardInterrupt"
                               THEN "finally" ELSE "loop"
    /\ UNCHANGED <<num_frames, ex_vars, cap_vars>>

\* Lines 104-110: the finally block, entered when the loop is exhausted or
\* an exception leaves it; closes every writer of the dict.
LogFinally ==
    /\ \/ pc_log = "finally"
       \/ pc_log = "loop" /\ frame_num = num_frames
    /\ summary_writers' = CloseAll(summary_writers, writers)
    /\ pc_log' = "done"
    /\ UNCHANGED <<num_frames, frame_num, writers, logged, errors_printed,
                   interrupted, ex_vars, cap_vars>>

\* The most calls on writers one frame can make.
MaxOps == 8

InitLog ==
    /\ pc_log = "start"
    /\ num_frames \in 0..MaxLogFrames
    /\ frame_num = 0
    /\ writers = <<>>
    /\ summary_writers = <<>>
    /\ logged = 0
    /\ errors_printed = 0
    /\ interrupted = FALSE
    /\ ExOff
    /\ CapOff

NextLog ==
    \/ LogStart
    \/ \E file \in LogFrames, n \in 0..MaxOps, outcome \in Outcomes :
           LogFrame(file, n, outcome)
    \/ LogFinally

SpecLog == InitLog /\ [][NextLog]_vars

(***************************************************************************)
(* FrameCapture.capture_single_frame and FrameCapture.capture_frames       *)
(***************************************************************************)
MaxFrameNo == 3
MaxWorkers == 2

\* The values of --start tried.
StartFrames == {1, 2}

\* range(start_frame, max_frame + 1)
FrameRange == start_frame..max_frame

\* total_frames = max_frame - start_frame + 1
total_frames == max_frame - start_frame + 1

Threads == 1..max_workers

\* How lines 47-80 of one capture end: the screenshot is saved, or
\* save_screenshot answers False, or some call raises an Exception.
CaptureOutcomes == {"saved", "not_saved", "Exception"}

\* executor.submit for the next frame number of the comprehension (line 119).
Submit ==
    /\ pc_main = "submit"
    /\ start_frame + Len(submitted) <= max_frame
    /\ submitted' = Append(submitted, start_frame + Len(submitted))
    /\ work_queue' = Append(work_queue, start_frame + Len(submitted))
    /\ UNCHANGED <<pc_main, start_frame, max_frame, max_workers, workers, lock,
                   screenshots_taken, returned, error_prints, completed,
                   ex_vars, log_vars>>

\* The comprehension is exhausted; the as_completed loop starts (line 131).
SubmitDone ==
    /\ pc_main = "submit"
    /\ start_frame + Len(submitted) > max_frame
    /\ pc_main' = "as_completed"
    /\ UNCHANGED <<start_frame, max_frame, max_workers, submitted, work_queue,
                   workers, lock, screenshots_taken, returned, error_prints,
                   completed, ex_vars, log_vars>>

\* A pool thread takes the oldest waiting task.
Take(t) ==
    /\ workers[t].pc = "idle"
    /\ work_queue # <<>>
    /\ workers' = [workers EXCEPT ![t].pc = "capture", ![t].frame = Head(work_queue)]
    /\ work_queue' = Tail(work_queue)
    /\ UNCHANGED <<pc_main, start_frame, max_frame, max_workers, submitted, lock,
                   screenshots_taken, returned, error_prints, completed,
                   ex_vars, log_vars>>

\* Lines 47-80 and, unless the screenshot was saved, the return: an
\* Exception is printed and answered with (frame_num, False) (lines 88-90).
Capture(t, outcome) ==
    /\ workers[t].pc = "capture"
    /\ IF outcome = "saved"
       THEN /\ workers' = [workers EXCEPT ![t].pc = "acquire"]
            /\ UNCHANGED <<returned, error_prints>>
       ELSE /\ workers' = [workers EXCEPT ![t].pc = "idle"]
            /\ returned' = Append(returned,
                                  [frame |-> workers[t].frame, success |-> FALSE])
            /\ error_prints' = IF outcome = "Exception"
                               THEN error_prints + 1 ELSE error_prints
    /\ UNCHANGED <<pc_main, start_frame, max_frame, max_workers, submitted,
                   work_queue, lock, screenshots_taken, completed, ex_vars, log_vars>>

\* "with self.lock:" (line 83): wait until the lock is free, then hold it.
\* (mutant: the increment is not guarded, the thread goes on at once)
AcquireNoWait(t) ==
    /\ workers[t].pc = "acquire"
    /\ lock' = t
    /\ workers' = [workers EXCEPT ![t].pc = "read"]
    /\ UNCHANGED <<pc_main, start_frame, max_frame, max_workers, submitted,
                   work_queue, screenshots_taken, returned, error_prints, completed,
                   ex_vars, log_vars>>

Acquire(t) ==
    /\ workers[t].pc = "acquire"
    /\ lock = 0
    /\ lock' = t
    /\ workers' = [workers EXCEPT ![t].pc = "read"]
    /\ UNCHANGED <<pc_main, start_frame, max_frame, max_workers, submitted,
                   work_queue, screenshots_taken, returned, error_prints, completed,
                   ex_vars, log_vars>>

\* "self.screenshots_taken += 1" (line 84), first half: load the attribute.
Read(t) ==
    /\ workers[t].pc = "read"
    /\ workers' = [workers EXCEPT ![t].pc = "write", ![t].tmp = screenshots_taken]
    /\ UNCHANGED <<pc_main, start_frame, max_frame, max_workers, submitted,
                   work_queue, lock, screenshots_taken, returned, error_prints,
                   completed, ex_vars, log_vars>>

\* "self.screenshots_taken += 1", second half: store the sum.
Write(t) ==
    /\ workers[t].pc = "write"
    /\ screenshots_taken' = workers[t].tmp + 1
    /\ workers' = [workers EXCEPT ![t].pc = "release"]
    /\ UNCHANGED <<pc_main, start_frame, max_frame, max_workers, submitted,
                   work_queue, lock, returned, error_prints, completed,
                   ex_vars, log_vars>>

\* Leave the with block and return (frame_num, success) (line 86).
Release(t) ==
    /\ workers[t].pc = "release"
    /\ lock' = 0
    /\ returned' = Append(returned, [frame |-> workers[t].frame, success |-> TRUE])
    /\ workers' = [workers EXCEPT ![t].pc = "idle"]
    /\ UNCHANGED <<pc_main, start_frame, max_frame, max_workers, submitted,
                   work_queue, screenshots_taken, error_prints, completed,
                   ex_vars, log_vars>>

\* One round of the as_completed loop (lines 131-147) on a finished future.
Complete ==
    /\ pc_main = "as_completed"
    /\ completed < Len(returned)
    /\ completed' = completed + 1
    /\ UNCHANGED <<pc_main, start_frame, max_frame, max_workers, submitted,
                   work_queue, workers, lock, screenshots_taken, returned,
                   error_prints, ex_vars, log_vars>>

\* Every future has been yielded: the loop ends and the executor's with
\* block is left, its threads joined (line 154).
Drain ==
    /\ pc_main = "as_completed"
    /\ completed = Len(submitted)
    /\ pc_main' = "drained"
    /\ UNCHANGED <<start_frame, max_frame, max_workers, submitted, work_queue,
                   workers, lock, screenshots_taken, returned, error_prints,
                   completed, ex_vars, log_vars>>

\* FrameCapture.__init__ and the head of capture_frames.
InitCapture ==
    /\ pc_main = "submit"
    /\ start_frame \in StartFrames
    /\ max_frame \in 0..MaxFrameNo
    /\ max_workers \in 1..MaxWorkers
    /\ submitted = <<>>
    /\ work_queue = <<>>
    /\ workers = [t \in 1..max_workers |-> [pc |-> "idle", frame |-> 0, tmp |-> 0]]
    /\ lock = 0
    /\ screenshots_taken = 0
    /\ returned = <<>>
    /\ error_prints = 0
    /\ completed = 0
    /\ ExOff
    /\ LogOff

NextCapture ==
    \/ Submit
    \/ SubmitDone
    \/ \E t \in Threads : Take(t)
    \/ \E t \in Threads, outcome \in CaptureOutcomes : Capture(t, outcome)
    \/ \E t \in Threads : Acquire(t)
    \/ \E t \in Threads : Read(t)
    \/ \E t \in Threads : Write(t)
    \/ \E t \in Threads : Release(t)
    \/ Complete
    \/ Drain

SpecCapture == InitCapture /\ [][NextCapture]_vars

(***************************************************************************)
(* Either script run on its own                                            *)
(***************************************************************************)
InitGlue == InitLog \/ InitCapture

NextGlue == NextLog \/ NextCapture

SpecGlue == InitGlue /\ [][NextGlue]_vars

(***************************************************************************)
(* What the source image says, read off the pixels without the scan        *)
(***************************************************************************)
\* The sample at row y, column x is FOREGROUND (dark).
Foreground(file, y, x) == file.pix[y + 1][x + 1] <= 127

\* Rows y of column x whose class differs from that of row y + 1.
EventRows(file, x) ==
    { y \in 0..(file.h - 2) : Foreground(file, y, x) # Foreground(file, y + 1, x) }

\* How many events column x has.
EventCount(file, x) == Cardinality(EventRows(file, x))

\* The largest event count of any column.
MaxEvents(file) ==
    CHOOSE m \in 0..file.h :
        /\ \A x \in 0..(file.w - 1) : EventCount(file, x) <= m
        /\ \E x \in 0..(file.w - 1) : EventCount(file, x) = m

\* The entry of the rank-r curve at column x; NaN when there is no such curve.
Entry(curves, r, x) ==
    IF \E k \in 1..Len(curves) : curves[k].name = <<"transition", r>>
    THEN curves[CHOOSE k \in 1..Len(curves) :
                    curves[k].name = <<"transition", r>>].data[x + 1]
    ELSE NaN

Returned == pc_ex = "returned"
Columns == 0..(image_file.w - 1)

\* C1: in TRANSITION mode an event at y + 0.5 is produced in column x exactly
\* when rows y and y + 1 of that column differ in class, and the j-th such
\* event of the column, top to bottom, is the value stored at Curve[j][x].
C1_TransitionEvents ==
    Returned =>
        \A x \in Columns :
            /\ \A y \in 0..(image_file.h - 2) :
                   (\E k \in 1..Len(all_curves) :
                        all_curves[k].data[x + 1] = 2 * y + 1)
                   <=> (y \in EventRows(image_file, x))
            /\ \A y \in EventRows(image_file, x) :
                   LET j == Cardinality({ y2 \in EventRows(image_file, x) : y2 < y })
                   IN /\ \E k \in 1..Len(all_curves) :
                             all_curves[k].name = <<"transition", j>>
                      /\ Entry(all_curves, j, x) = 2 * y + 1

\* A returned frame with a column that holds two events and one that holds fewer.
C1_Witness ==
    /\ Returned
    /\ \E x \in Columns : EventCount(image_file, x) = 2
    /\ \E x \in Columns : EventCount(image_file, x) = 1

\* C2: the ranks returned are exactly 0 .. M-1, in numeric order and without
\* gaps, where M is the largest number of events found in a single column.
C2_RanksContiguous ==
    Returned =>
        [k \in 1..Len(all_curves) |-> all_curves[k].name]
            = [k \in 1..MaxEvents(image_file) |-> <<"transition", k - 1>>]

\* A returned frame whose first column has fewer events than a later one, so
\* the higher rank is created by the later column.
C2_Witness ==
    /\ Returned
    /\ image_file.w >= 2
    /\ EventCount(image_file, 0) = 1
    /\ EventCount(image_file, 1) = 2
    /\ Len(all_curves) = 2

\* C3: every curve has length W; the entry of rank r at a column with fewer
\* than r + 1 events is NaN, and an entry is present only where the column
\* has an event of that rank.
C3_CurveShape ==
    Returned =>
        \A k \in 1..Len(all_curves) :
            /\ Len(all_curves[k].data) = image_file.w
            /\ \A x \in Columns :
                   (all_curves[k].data[x + 1] = NaN)
                   <=> (EventCount(image_file, x) < k)

\* A returned curve with an absent entry next to a present one.
C3_Witness ==
    /\ Returned
    /\ \E k \in 1..Len(all_curves) :
           /\ \E x \in Columns : all_curves[k].data[x + 1] = NaN
           /\ \E x \in Columns : all_curves[k].data[x + 1] # NaN

\* The image is BACKGROUND except for FOREGROUND at row r on the columns S.
IsStripe(file, r, S) ==
    /\ file.kind = "ok"
    /\ r >= 1
    /\ r <= file.h - 2
    /\ S # {}
    /\ \A y \in 0..(file.h - 1), x \in 0..(file.w - 1) :
           Foreground(file, y, x) <=> (y = r /\ x \in S)

\* C4: a one-row FOREGROUND stripe at row r that touches neither border gives
\* exactly ranks 0 and 1, with r - 0.5 and r + 0.5 at every column the stripe
\* crosses and absent entries at exactly the other columns.
C4_Stripe ==
    Returned =>
        \A r \in 0..(image_file.h - 1), S \in SUBSET Columns :
            IsStripe(image_file, r, S) =>
                /\ Len(all_curves) = 2
                /\ all_curves[1].name = <<"transition", 0>>
                /\ all_curves[2].name = <<"transition", 1>>
                /\ \A x \in Columns :
                       IF x \in S
                       THEN /\ all_curves[1].data[x + 1] = 2 * r - 1
                            /\ all_curves[2].data[x + 1] = 2 * r + 1
                       ELSE /\ all_curves[1].data[x + 1] = NaN
                            /\ all_curves[2].data[x + 1] = NaN

\* A returned stripe that crosses some columns and misses another.
C4_Witness ==
    /\ Returned
    /\ \E r \in 0..(image_file.h - 1), S \in SUBSET Columns :
           /\ IsStripe(image_file, r, S)
           /\ Cardinality(S) >= 2
           /\ S # Columns

C6_ThinImages ==
    (pc_ex \in {"returned", "raised"} /\ image_file.kind = "ok"
        /\ (image_file.h = 1 \/ image_file.w = 1)) =>
        /\ pc_ex = "returned"
        /\ error = ""
        /\ (image_file.h = 1) => all_curves = <<>>
        /\ (image_file.w = 1) =>
               /\ Len(x_sample) = 1
               /\ \A k \in 1..Len(all_curves) : Len(all_curves[k].data) = 1

\* A returned width-1 image that has curves.
C6_Witness ==
    /\ Returned
    /\ image_file.w = 1
    /\ Len(all_curves) = 2

\* The grid with columns a and b exchanged.
SwapColumns(pix, a, b) ==
    [y \in DOMAIN pix |->
        [x \in DOMAIN pix[y] |->
            IF x = a + 1 THEN pix[y][b + 1]
            ELSE IF x = b + 1 THEN pix[y][a + 1]
            ELSE pix[y][x]]]

\* The grid with column a copied over column b.
DuplicateColumn(pix, a, b) ==
    [y \in DOMAIN pix |->
        [x \in DOMAIN pix[y] |-> IF x = b + 1 THEN pix[y][a + 1] ELSE pix[y][x]]]

\* The one-column grid holding column x alone.
OnlyColumn(pix, x) == [y \in DOMAIN pix |-> <<pix[y][x + 1]>>]

\* C7: the entries of column x depend on the samples of column x alone:
\* they are those of the column extracted on its own, and exchanging two
\* columns or copying one column over another leaves every other column's
\* entries as they were.
C7_ColumnIndependence ==
    Returned =>
        /\ \A x \in Columns :
               LET alone == CurvesOf(OnlyColumn(image_file.pix, x))
               IN \A r \in 0..(image_file.h - 1) :
                      Entry(alone, r, 0) = Entry(all_curves, r, x)
        /\ \A a \in Columns, b \in Columns :
               LET swapped == CurvesOf(SwapColumns(image_file.pix, a, b))
               IN (a < b) =>
                      \A r \in 0..(image_file.h - 1), x \in Columns :
                          Entry(swapped, r, x) =
                              Entry(all_curves, r,
                                    IF x = a THEN b ELSE IF x = b THEN a ELSE x)
        /\ \A a \in Columns, b \in Columns :
               LET copied == CurvesOf(DuplicateColumn(image_file.pix, a, b))
               IN (a # b) =>
                      \A r \in 0..(image_file.h - 1), x \in Columns :
                          Entry(copied, r, x) =
                              Entry(all_curves, r, IF x = b THEN a ELSE x)

\* A returned frame of three columns with three different event counts.
C7_Witness ==
    /\ Returned
    /\ image_file.w >= 3
    /\ EventCount(image_file, 0) = 2
    /\ EventCount(image_file, 1) = 0
    /\ EventCount(image_file, 2) = 1

\* The frames of range(start_frame, max_frame + 1), counted.
NumFrames == Cardinality(FrameRange)

\* The futures that returned success.
Successes == { i \in 1..Len(returned) : returned[i].success }

OneWriterPerName ==
    /\ \A i, j \in 1..Len(summary_writers) :
           summary_writers[i].name = summary_writers[j].name => i = j
    /\ \A i \in 1..Len(summary_writers) :
           \E k \in 1..Len(writers) :
               /\ writers[k].name = summary_writers[i].name
               /\ writers[k].obj = i

\* No writer is closed twice, and at the end each was closed once.
ClosedOnce ==
    /\ \A i \in 1..Len(summary_writers) : summary_writers[i].closes <= 1
    /\ (pc_log = "done") =>
           \A i \in 1..Len(summary_writers) : summary_writers[i].closes = 1

\* A step leaves a closed writer's writes as they were.
NoWriteAfterClose ==
    \A i \in 1..Len(summary_writers) :
        summary_writers[i].closes > 0 =>
            /\ Len(summary_writers') >= i
            /\ summary_writers'[i].writes = summary_writers[i].writes

====
